---- MODULE Spec2Model ----
(***************************************************************************)
(* Model of the notebook ASDF_and_World_Coordinate_Systems.ipynb.          *)
(*                                                                         *)
(* The notebook opens an ASDF file, takes the GWCS object stored under     *)
(* 'wcs', evaluates it (whole pipeline and between named frames), reads    *)
(* the step transforms, replaces the transform of step 1 by                *)
(*   (Scale(va) & Scale(va)) | transform2                                  *)
(* writes the tree to 'modified_wcs.asdf', re-opens that file and reads    *)
(* the step transform back.  A file is modelled by the tree it holds: how  *)
(* asdf encodes and parses it is not part of the notebook.                 *)
(*                                                                         *)
(* Each code cell is one action.  A Jupyter kernel runs one cell at a time *)
(* and lets the user run cells in any order and any number of times; a     *)
(* cell whose names are not bound yet raises NameError and changes         *)
(* nothing, which is the action being disabled.                            *)
(*                                                                         *)
(* Numbers are exact decimals <<n, d1, d2, ...>> standing for              *)
(*   n + d1/10^5 + d2/10^10 + ...    (n any integer, each d in 0..99999,   *)
(* no zero at the end), so 1.00008 is <<1, 8>>, 229.51836 is               *)
(* <<229, 51836>> and -1024.5 is <<-1025, 50000>>.  The notebook computes  *)
(* in floating point, which agrees with these values up to rounding.       *)
(*                                                                         *)
(* Transforms are trees:                                                   *)
(*   <<"Shift", c>>  <<"Scale", c>>      1 input, 1 output                 *)
(*   <<"Mapping", spec, n>>              n inputs, Len(spec) outputs       *)
(*   <<"Join", A, B>>                    A & B                             *)
(*   <<"Chain", A, B>>                   A | B                             *)
(***************************************************************************)
EXTENDS Integers, Sequences, FiniteSets, TLC

VARIABLES imported, filepath, remote, pix, heap, af, wcs,
          v2v3coords, transform1, transform2, transform3,
          disk, af2, wcs2, mtransform2, last, alg

vars == <<imported, filepath, remote, pix, heap, af, wcs,
          v2v3coords, transform1, transform2, transform3,
          disk, af2, wcs2, mtransform2, last, alg>>

nbvars == <<imported, filepath, remote, pix, heap, af, wcs,
            v2v3coords, transform1, transform2, transform3,
            disk, af2, wcs2, mtransform2, last>>

(* ---------------------------------------------------------------------- *)
(* Bounds                                                                 *)
(* ---------------------------------------------------------------------- *)
\* number of times the plate-scale correction may be stacked on a step
MaxStack == 2
\* number of asdf.open calls, each of which makes one WCS object
MaxObjs == 2

(* ---------------------------------------------------------------------- *)
(* Values                                                                 *)
(* ---------------------------------------------------------------------- *)
\* a name that is not bound in the kernel
Undefined == <<"Undefined">>
\* the transform of the last step, and the value of a name bound to None
None == <<"None">>
\* an expression that raised: no value, the exception's kind
Raise(kind) == <<"Error", kind>>
IsError(v) == v[1] = "Error"
\* the outcome of a call that returned the coordinates v
Return(v) == <<"Return", v>>

(* ---------------------------------------------------------------------- *)
(* Decimal numbers                                                        *)
(* ---------------------------------------------------------------------- *)
\* carries every place into 0..99999, right to left
RECURSIVE Carry(_)
Carry(v) ==
  IF Len(v) = 1 THEN v
  ELSE LET n == Len(v)
           front == SubSeq(v, 1, n - 1)
       IN  Carry([front EXCEPT ![n - 1] = @ + (v[n] \div 100000)])
             \o <<v[n] % 100000>>

\* drops the zeros at the end
RECURSIVE Trim(_)
Trim(v) ==
  IF Len(v) > 1 /\ v[Len(v)] = 0 THEN Trim(SubSeq(v, 1, Len(v) - 1)) ELSE v

Place(v, i) == IF i <= Len(v) THEN v[i] ELSE 0
Longer(a, b) == IF Len(a) >= Len(b) THEN Len(a) ELSE Len(b)

\* a + b
Add(a, b) == Trim(Carry([i \in 1..Longer(a, b) |-> Place(a, i) + Place(b, i)]))

\* the sum of a[j] * b[k + 1 - j] over the places j = 1..i
RECURSIVE Cross(_, _, _, _)
Cross(a, b, k, i) ==
  IF i = 0 THEN 0
  ELSE Place(a, i) * Place(b, k + 1 - i) + Cross(a, b, k, i - 1)

\* a * b
Mul(a, b) ==
  Trim(Carry([k \in 1..(Len(a) + Len(b) - 1) |-> Cross(a, b, k, k)]))

\* va_plate_scale_correction = 1.00008
va_plate_scale_correction == <<1, 8>>

(* ---------------------------------------------------------------------- *)
(* astropy.modeling compound models, as the notebook describes them       *)
(* ---------------------------------------------------------------------- *)
Shift(c) == <<"Shift", c>>
Scale(c) == <<"Scale", c>>
Mapping(spec, n) == <<"Mapping", spec, n>>

RECURSIVE n_inputs(_)
n_inputs(t) ==
  CASE t[1] \in {"Shift", "Scale"} -> 1
    [] t[1] = "Mapping" -> t[3]
    [] t[1] = "Join" -> n_inputs(t[2]) + n_inputs(t[3])
    [] t[1] = "Chain" -> n_inputs(t[2])

RECURSIVE n_outputs(_)
n_outputs(t) ==
  CASE t[1] \in {"Shift", "Scale"} -> 1
    [] t[1] = "Mapping" -> Len(t[2])
    [] t[1] = "Join" -> n_outputs(t[2]) + n_outputs(t[3])
    [] t[1] = "Chain" -> n_outputs(t[3])

\* the operands taken in the wrong order
Join_swapped(A, B) == <<"Join", B, A>>

\* A & B: "joined by adding dimensionality"
Join(A, B) == <<"Join", A, B>>

\* A | B: "feeds the output of the preceding function into the next.  The
\* number of outputs of the preceding must match the number of inputs of
\* the following function."  There is no compound model of operands that
\* do not match.
Chain(A, B) == CASE n_outputs(A) = n_inputs(B) -> <<"Chain", A, B>>

\* calling a model on a tuple of coordinates
RECURSIVE Eval(_, _)
Eval(t, x) ==
  CASE t[1] = "Shift" -> <<Add(x[1], t[2])>>
    [] t[1] = "Scale" -> <<Mul(x[1], t[2])>>
    [] t[1] = "Mapping" -> [i \in 1..Len(t[2]) |-> x[t[2][i] + 1]]
    [] t[1] = "Join" ->
         Eval(t[2], SubSeq(x, 1, n_inputs(t[2])))
           \o Eval(t[3], SubSeq(x, n_inputs(t[2]) + 1, Len(x)))
    [] t[1] = "Chain" -> Eval(t[3], Eval(t[2], x))

\* model(*x): the number of arguments must be the number of inputs
Call(t, x) ==
  IF Len(x) = n_inputs(t) THEN Return(Eval(t, x)) ELSE Raise("TypeError")

(* ---------------------------------------------------------------------- *)
(* gwcs.WCS: a pipeline is a sequence of steps                            *)
(*   [frame |-> name, unit |-> one unit per axis, transform |-> T | None] *)
(* ---------------------------------------------------------------------- *)
Step(f, u, t) == [frame |-> f, unit |-> u, transform |-> t]

\* the transforms of consecutive steps joined by |, first to last
RECURSIVE ChainAll(_)
ChainAll(ts) ==
  IF Len(ts) = 1 THEN ts[1]
  ELSE Chain(ChainAll(SubSeq(ts, 1, Len(ts) - 1)), ts[Len(ts)])

\* position of the step whose frame has this name
FrameIndex(p, name) == CHOOSE i \in 1..Len(p) : p[i].frame = name

\* wcs.pipeline, frames only (what the notebook reads off the printed steps)
list_frames(p) == [i \in 1..Len(p) |-> p[i].frame]

\* wcs.output_frame
output_frame(p) == p[Len(p)].frame

\* wcs.pipeline[i].frame.unit, i counted from 0 as in the notebook
step_unit(p, i) == p[i + 1].unit

\* wcs.pipeline[i].transform, i counted from 0 as in the notebook
step_transform(p, i) == p[i + 1].transform

\* takes the notebook's index for a position counted from 1
set_step_transform_wrong_step(p, i, t) == [p EXCEPT ![i].transform = t]

\* puts a new step in place of the old one and loses its frame
set_step_transform_new_step(p, i, t) ==
  [p EXCEPT ![i + 1] = Step("", p[i + 1].unit, t)]

\* wcs.pipeline[i].transform = t
set_step_transform(p, i, t) == [p EXCEPT ![i + 1].transform = t]

\* wcs.transform(from, to, *x) as the notebook calls it: the frame `to`
\* comes after the frame `from`, and the steps from `from` up to but not
\* including `to` are applied in order
transform_between(p, from, to, x) ==
  LET i == FrameIndex(p, from)
      j == FrameIndex(p, to)
  IN  Call(ChainAll([k \in 1..(j - i) |-> p[i + k - 1].transform]), x)

\* wcs(*x): the whole pipeline, input frame to output frame
evaluate(p, x) == Call(ChainAll([k \in 1..(Len(p) - 1) |-> p[k].transform]), x)

(* ---------------------------------------------------------------------- *)
(* Inputs                                                                 *)
(* ---------------------------------------------------------------------- *)
Pixel == <<"pixel", "pixel">>
Arcsec == <<"arcsec", "arcsec">>
Deg == <<"deg", "deg">>

\* the pipeline the notebook describes.  Step 0 "shifts both input values
\* first by 1 and then by -1024.5", "splits the two input values so that
\* both go to two different 2D polynomials (each of which produces only one
\* value)", then "a similar split" to a second pair "followed by a shift in
\* the V2,V3 coordinate system"; step 1 is "a scale change" followed by the
\* rotation to RA, Dec.  The polynomial pairs P1, P2 (four inputs, two
\* outputs), the last shift S, the scale c and the rotation R (two inputs,
\* two outputs) are in the downloaded file, not in the notebook.
Described(P1, P2, S, c, R) ==
  <<Step("detector", Pixel,
         ChainAll(<<Join(Shift(<<1>>), Shift(<<1>>)),
                    Join(Shift(<<-1025, 50000>>), Shift(<<-1025, 50000>>)),
                    Mapping(<<0, 1, 0, 1>>, 2), P1,
                    Mapping(<<0, 1, 0, 1>>, 2), P2,
                    S>>)),
    Step("v2v3", Arcsec, Chain(Join(Scale(c), Scale(c)), R)),
    Step("world", Deg, None)>>

\* pipelines the file asdf_tut_gwcs.asdf may hold: the described pipeline
\* with different polynomials, shifts, scales and rotations
asdf_tut_gwcs_1 ==
  Described(Join(Mapping(<<0>>, 2), Mapping(<<1>>, 2)),
            Join(Mapping(<<1>>, 2), Mapping(<<0>>, 2)),
            Join(Shift(<<1000>>), Shift(<<1000>>)),
            <<3>>, Mapping(<<1, 0>>, 2))

asdf_tut_gwcs_2 ==
  Described(Join(Chain(Mapping(<<1>>, 2), Scale(<<2>>)), Mapping(<<0>>, 2)),
            Join(Mapping(<<0>>, 2), Chain(Mapping(<<1>>, 2), Shift(<<1>>))),
            Join(Shift(<<0>>), Shift(<<7>>)),
            <<2>>, Join(Shift(<<-1>>), Scale(<<3>>)))

asdf_tut_gwcs_3 ==
  Described(Join(Mapping(<<1>>, 2), Chain(Mapping(<<0>>, 2), Shift(<<-2>>))),
            Join(Chain(Mapping(<<0>>, 2), Scale(<<3>>)), Mapping(<<1>>, 2)),
            Join(Shift(<<5>>), Shift(<<-3>>)),
            <<4>>, Join(Scale(<<2>>), Shift(<<4>>)))

Files == { asdf_tut_gwcs_1, asdf_tut_gwcs_2, asdf_tut_gwcs_3 }

\* the pixel coordinates given to wcs(...) and wcs.transform(...)
Pixels == { << <<100>>, <<200>> >> }

\* operands and arguments for the & operator
Models ==
  { Shift(<<1>>), Shift(<<-2>>), Scale(<<2>>), Scale(va_plate_scale_correction),
    Mapping(<<1, 0>>, 2), Mapping(<<0, 0>>, 1), Mapping(<<0, 1, 0>>, 2),
    <<"Join", Shift(<<1>>), Scale(<<2>>)>>,
    <<"Join", Scale(<<3>>), Mapping(<<1, 0>>, 2)>>,
    <<"Chain", <<"Join", Shift(<<1>>), Shift(<<2>>)>>, Mapping(<<1, 0>>, 2)>>,
    <<"Chain", Mapping(<<0, 0>>, 1), <<"Join", Scale(<<2>>), Shift(<<1>>)>> >> }
Values == { <<0>>, <<1>>, <<2, 50000>> }
Args(n) == [1..n -> Values]

(* ---------------------------------------------------------------------- *)
(* The kernel                                                             *)
(* ---------------------------------------------------------------------- *)
\* what the last executed cell displayed, and whether it raised
Ran(cell, out) ==
  [cell |-> cell, status |-> IF IsError(out) THEN out[2] ELSE "ok", out |-> out]

NoAlg == [a |-> None, b |-> None, op |-> "none", x |-> <<>>,
          made |-> None, out |-> None]

\* WCS objects are numbered in the order asdf.open made them; af, wcs, af2
\* and wcs2 hold an object's number, or 0 while unbound
KernelStart ==
  /\ imported = FALSE
  /\ filepath = FALSE
  /\ heap = <<>>
  /\ af = 0
  /\ wcs = 0
  /\ v2v3coords = Undefined
  /\ transform1 = Undefined
  /\ transform2 = Undefined
  /\ transform3 = Undefined
  /\ disk = None
  /\ af2 = 0
  /\ wcs2 = 0
  /\ mtransform2 = Undefined
  /\ last = Ran(0, None)

Init ==
  /\ KernelStart
  /\ remote \in Files
  /\ pix \in Pixels
  /\ alg = NoAlg

\* import asdf; from astropy.utils.data import download_file; ...
Cell1 ==
  /\ imported' = TRUE
  /\ last' = Ran(1, None)
  /\ UNCHANGED <<filepath, remote, pix, heap, af, wcs, v2v3coords, transform1,
                 transform2, transform3, disk, af2, wcs2, mtransform2, alg>>

\* filepath = download_file(file1_url_1)
Cell2 ==
  /\ imported
  /\ filepath' = TRUE
  /\ last' = Ran(2, None)
  /\ UNCHANGED <<imported, remote, pix, heap, af, wcs, v2v3coords, transform1,
                 transform2, transform3, disk, af2, wcs2, mtransform2, alg>>

\* af = asdf.open(filepath)
Cell3 ==
  /\ imported /\ filepath
  /\ Len(heap) < MaxObjs
  /\ heap' = Append(heap, remote)
  /\ af' = Len(heap) + 1
  /\ last' = Ran(3, None)
  /\ UNCHANGED <<imported, filepath, remote, pix, wcs, v2v3coords, transform1,
                 transform2, transform3, disk, af2, wcs2, mtransform2, alg>>

\* wcs = af['wcs']
Cell4 ==
  /\ af # 0
  /\ wcs' = af
  /\ last' = Ran(4, None)
  /\ UNCHANGED <<imported, filepath, remote, pix, heap, af, v2v3coords, transform1,
                 transform2, transform3, disk, af2, wcs2, mtransform2, alg>>

\* a cell that only displays a value
Display(cell, out) ==
  /\ last' = Ran(cell, out)
  /\ UNCHANGED <<imported, filepath, remote, pix, heap, af, wcs, v2v3coords,
                 transform1, transform2, transform3, disk, af2, wcs2,
                 mtransform2, alg>>

\* wcs(100,200)
Cell5 == wcs # 0 /\ Display(5, evaluate(heap[wcs], pix))

\* wcs.output_frame
Cell6 == wcs # 0 /\ Display(6, <<output_frame(heap[wcs])>>)

\* wcs.pipeline
Cell7 == wcs # 0 /\ Display(7, list_frames(heap[wcs]))

\* v2v3coords = wcs.transform('detector','v2v3', 100, 200); v2v3coords
Cell9 ==
  /\ wcs # 0
  /\ LET r == transform_between(heap[wcs], "detector", "v2v3", pix)
     IN  /\ v2v3coords' = IF IsError(r) THEN v2v3coords ELSE r[2]
         /\ last' = Ran(9, r)
  /\ UNCHANGED <<imported, filepath, remote, pix, heap, af, wcs, transform1,
                 transform2, transform3, disk, af2, wcs2, mtransform2, alg>>

\* wcs.pipeline[1].frame.unit
Cell10 == wcs # 0 /\ Display(10, step_unit(heap[wcs], 1))

\* wcs.transform('v2v3', 'world', *v2v3coords)
Cell11 ==
  /\ wcs # 0 /\ v2v3coords # Undefined
  /\ Display(11, transform_between(heap[wcs], "v2v3", "world", v2v3coords))

\* transform1 = wcs.pipeline[0].transform; type(transform1)
Cell13 ==
  /\ wcs # 0
  /\ transform1' = step_transform(heap[wcs], 0)
  /\ last' = Ran(13, <<transform1'[1]>>)
  /\ UNCHANGED <<imported, filepath, remote, pix, heap, af, wcs, v2v3coords,
                 transform2, transform3, disk, af2, wcs2, mtransform2, alg>>

\* print(transform1)
Cell14 == transform1 # Undefined /\ Display(14, transform1)

\* transform2 = wcs.pipeline[1].transform; print(transform2)
Cell16 ==
  /\ wcs # 0
  /\ transform2' = step_transform(heap[wcs], 1)
  /\ last' = Ran(16, transform2')
  /\ UNCHANGED <<imported, filepath, remote, pix, heap, af, wcs, v2v3coords,
                 transform1, transform3, disk, af2, wcs2, mtransform2, alg>>

\* how many plate-scale corrections are stacked on t
RECURSIVE Stacked(_)
Stacked(t) ==
  IF /\ t[1] = "Chain"
     /\ t[2] = Join(Scale(va_plate_scale_correction), Scale(va_plate_scale_correction))
  THEN 1 + Stacked(t[3]) ELSE 0

\* transform3 = (Scale(va) & Scale(va)) | transform2
\* wcs.pipeline[1].transform = transform3
\* af.write_to('modified_wcs.asdf', all_array_storage='inline')
Cell18 ==
  /\ transform2 # Undefined
  /\ Stacked(transform2) < MaxStack
  /\ transform3' = Chain(Join(Scale(va_plate_scale_correction),
                              Scale(va_plate_scale_correction)), transform2)
  /\ heap' = [heap EXCEPT ![wcs] = set_step_transform(@, 1, transform3')]
  /\ disk' = heap'[af]
  /\ last' = Ran(18, None)
  /\ UNCHANGED <<imported, filepath, remote, pix, af, wcs, v2v3coords,
                 transform1, transform2, af2, wcs2, mtransform2, alg>>

\* af2 = asdf.open('modified_wcs.asdf')
Cell19 ==
  /\ imported
  /\ disk # None
  /\ Len(heap) < MaxObjs
  /\ heap' = Append(heap, disk)
  /\ af2' = Len(heap) + 1
  /\ last' = Ran(19, None)
  /\ UNCHANGED <<imported, filepath, remote, pix, af, wcs, v2v3coords, transform1,
                 transform2, transform3, disk, wcs2, mtransform2, alg>>

\* wcs2 = af2['wcs']; mtransform2 = wcs2.pipeline[1].transform; print(mtransform2)
Cell20 ==
  /\ af2 # 0
  /\ wcs2' = af2
  /\ mtransform2' = step_transform(heap[af2], 1)
  /\ last' = Ran(20, mtransform2')
  /\ UNCHANGED <<imported, filepath, remote, pix, heap, af, wcs, v2v3coords,
                 transform1, transform2, transform3, disk, af2, alg>>

\* with open('modified_wcs.asdf') as asdftext: print(asdftext.read())
Cell21 == disk # None /\ Display(21, <<"text", disk>>)

Next ==
  \/ Cell1 \/ Cell2 \/ Cell3 \/ Cell4 \/ Cell5 \/ Cell6 \/ Cell7
  \/ Cell9 \/ Cell10 \/ Cell11 \/ Cell13 \/ Cell14 \/ Cell16
  \/ Cell18 \/ Cell19 \/ Cell20 \/ Cell21

Spec == Init /\ [][Next]_vars

(* ---------------------------------------------------------------------- *)
(* The & operator on its own: operands and arguments drawn from Models    *)
(* and Values                                                             *)
(* ---------------------------------------------------------------------- *)
InitOps ==
  /\ KernelStart
  /\ remote = asdf_tut_gwcs_1
  /\ pix = << <<100>>, <<200>> >>
  /\ \E a \in Models, b \in Models :
       alg = [NoAlg EXCEPT !.a = a, !.b = b]

\* (a & b)(*x)
ApplyJoin ==
  /\ alg.op = "none"
  /\ \E x \in Args(n_inputs(alg.a) + n_inputs(alg.b)) :
       alg' = [alg EXCEPT !.op = "join", !.x = x, !.made = Join(alg.a, alg.b),
                          !.out = Call(Join(alg.a, alg.b), x)]
  /\ UNCHANGED nbvars

NextOps == ApplyJoin

SpecOps == InitOps /\ [][NextOps]_vars
(* ====================================================================== *)
(* Properties                                                             *)
(* ====================================================================== *)
Objects == 1..Len(heap)
\* the last executed cell was a run of cell 18 that replaced the transform
Replaced == last.cell = 18 /\ last.status = "ok"
\* coordinates the properties are evaluated on
Coords == Pixels \cup { << <<10>>, <<-3, 50000>> >> }
(* ---------------------------------------------------------------------- *)
\* C1: after wcs.pipeline[1].transform = t succeeds, reading the step's
\* transform gives t and evaluating the pipeline runs t at that step, through
\* every name bound to the same object (wcs, and af['wcs'] which cell 4
\* shares rather than copies, so the file written through af holds t); the
\* assignment stays in force on that object until the next successful one.
\* On the first of the pipelines the file may hold, with one correction in
\* front of the scale, (100, 200) goes to (229.51836, 529.54236).
C1_SetThenGet ==
  /\ [](last.cell = 4 => wcs = af)
  /\ [](last.cell = 5 =>
          last.out = Return(Eval(step_transform(heap[wcs], 1),
                                 Eval(step_transform(heap[wcs], 0), pix))))
  /\ [](/\ Replaced /\ remote = asdf_tut_gwcs_1
        /\ Stacked(transform3) = 1
        => evaluate(heap[wcs], << <<100>>, <<200>> >>)
             = Return(<< <<229, 51836>>, <<529, 54236>> >>))
  /\ [][ /\ Replaced' =>
              /\ step_transform(heap'[wcs'], 1) = transform3'
              /\ \A x \in Coords :
                   evaluate(heap'[wcs'], x)
                     = Return(Eval(transform3', Eval(step_transform(heap[wcs], 0), x)))
              /\ af' = wcs' => step_transform(disk', 1) = transform3'
         /\ ~Replaced' => \A o \in Objects : heap'[o] = heap[o]
       ]_vars

\* an evaluation after a successful replacement, seen through wcs and af
C1_Witness ==
  /\ last.cell = 5
  /\ transform3 # Undefined
  /\ wcs = af
  /\ step_transform(heap[wcs], 1) = transform3
  /\ last.out # Return(Eval(step_transform(remote, 1),
                            Eval(step_transform(heap[wcs], 0), pix)))

(* ---------------------------------------------------------------------- *)
\* C7: a & b takes n_inputs(a) + n_inputs(b) arguments and gives
\* n_outputs(a) + n_outputs(b) values: a of the first arguments followed by
\* b of the rest; any other number of arguments is refused.
C7_JoinConcatenates ==
  alg.op = "join" =>
    LET na == n_inputs(alg.a)
        nb == n_inputs(alg.b)
    IN  /\ Len(alg.x) = na + nb
        /\ ~IsError(alg.out)
        /\ alg.out = Return(Eval(alg.a, SubSeq(alg.x, 1, na))
                              \o Eval(alg.b, SubSeq(alg.x, na + 1, na + nb)))
        /\ Len(alg.out[2]) = n_outputs(alg.a) + n_outputs(alg.b)
        /\ n_inputs(alg.made) = na + nb
        /\ n_outputs(alg.made) = n_outputs(alg.a) + n_outputs(alg.b)
        /\ \A n \in 1..(na + nb + 1) :
             n # na + nb => IsError(Call(alg.made, [i \in 1..n |-> <<0>>]))

\* a join of two different compound operands has been applied
C7_Witness ==
  /\ alg.op = "join"
  /\ alg.a[1] = "Chain"
  /\ alg.b[1] = "Join"
  /\ n_inputs(alg.a) # n_outputs(alg.a)
  /\ alg.out[2] # alg.x

(* ---------------------------------------------------------------------- *)
\* C9: no cell changes the frames of a pipeline object; the cells that
\* evaluate, read a step's transform or list the frames change no pipeline
\* object at all; a step's transform changes only in a successful run of
\* cell 18, and then only the v2v3 step of the object wcs names.
ReadOnlyCells == {5, 6, 7, 9, 10, 11, 13, 14, 16, 20, 21}

C9_OnlySetTransformMutates ==
  [][ /\ \A o \in Objects :
           /\ list_frames(heap'[o]) = list_frames(heap[o])
           /\ \A i \in 1..Len(heap[o]) : heap'[o][i].unit = heap[o][i].unit
      /\ last'.cell \in ReadOnlyCells => heap' = heap
      /\ \A o \in Objects : \A i \in 1..Len(heap[o]) :
           heap'[o][i].transform # heap[o][i].transform
             => /\ Replaced'
                /\ o = wcs
                /\ heap[o][i].frame = "v2v3"
    ]_vars

\* a between-frames evaluation has run after a replacement
C9_Witness ==
  /\ last.cell = 11
  /\ transform3 # Undefined
  /\ step_transform(heap[wcs], 1) = transform3
  /\ af2 # 0
====
